---- MODULE Spec2Model ----
(***************************************************************************)
(* Sandboxed code execution of MedSchool: the broker (sandbox/execd.py),   *)
(* the direct-code tool (mcp_server/tools/python_exec.py) and the shell    *)
(* tool (mcp_server/tools/shell_exec.py).                                  *)
(*                                                                         *)
(* Texts are not spelled out character by character (the output cap is     *)
(* 32768 characters): a text is a record                                   *)
(*   lead   number of leading whitespace characters (newlines)             *)
(*   body   number of characters from the first to the last non-blank one  *)
(*   trail  number of trailing whitespace characters (newlines)            *)
(*   width  bytes each body character takes in UTF-8 (1 or 2)              *)
(*   ok     FALSE when the byte stream is not valid UTF-8                  *)
(*   cr     TRUE when the byte stream ends its lines with CR LF            *)
(*   sp     TRUE when the whitespace characters are spaces, not newlines   *)
(*   gapAt, gapLen  a run of gapLen spaces inside the body, gapAt          *)
(*          characters after its start (gapLen = 0: no such run)           *)
(*   doc    what the complete body is: "none" (not JSON), "value" (JSON    *)
(*          that is not an object) or "triple" (the JSON object printed by *)
(*          the shell wrapper)                                             *)
(*   full   the body length at which the document is complete              *)
(*   val    for a triple, the encoded {stdout, stderr, exit_code}          *)
(***************************************************************************)
EXTENDS Integers, Sequences, FiniteSets, TLC

\* ---- program constants ----
OUTPUT_CAP == 32768
DEFAULT_TIMEOUT == 7
CPU_SEC == 6
SNIPPET_CAP == 800
TIMEOUT_MIN == 1
TIMEOUT_MAX == 30
TIMEOUT_EXIT == 124
CLIENT_MARGIN == 3
NOTEPAD_CAP == 1024

\* ---- bounds of the model ----
MaxDur == 8
MaxPad == 1
MaxDelay == 4
NumSeeds == 2
NumBundles == 2
MaxRetry == 2
MaxWorkers == 2
MaxReq == 2
NumKeys == 2

Min(a, b) == IF a <= b THEN a ELSE b

NoVal == [stdout |-> <<>>, stderr |-> <<>>, exit_code |-> 0]

Text(l, b, t, w, good, d) ==
  [lead |-> IF b = 0 THEN l + t ELSE l, body |-> b, trail |-> IF b = 0 THEN 0 ELSE t,
   width |-> w, ok |-> good, cr |-> FALSE, sp |-> FALSE, gapAt |-> 0, gapLen |-> 0,
   doc |-> d, full |-> b, val |-> NoVal]

Empty == Text(0, 0, 0, 1, TRUE, "none")

\* len(s), in characters
Length(t) == t.lead + t.body + t.trail

\* the number of bytes of the UTF-8 stream (a CR LF line end takes two)
ByteLen(t) == (IF t.cr THEN 2 ELSE 1) * (t.lead + t.trail) + t.width * t.body

\* s[:n]; a cut that falls in or right after the run of spaces inside the
\* body leaves a text that ends with spaces
Take(t, n) ==
  LET l == Min(t.lead, n)
      b == Min(t.body, n - l)
      r == Min(t.trail, n - l - b)
  IN IF t.gapLen > 0 /\ b < t.body /\ b > t.gapAt /\ b <= t.gapAt + t.gapLen
     THEN [t EXCEPT !.lead = l, !.body = t.gapAt, !.trail = b - t.gapAt, !.gapLen = 0,
                    !.sp = TRUE]
     ELSE [t EXCEPT !.lead = l, !.body = b, !.trail = r,
                    !.gapLen = IF b >= t.gapAt + t.gapLen THEN @ ELSE 0]

\* s.strip()
Strip(t) == [t EXCEPT !.lead = 0, !.trail = 0]

\* bool(s)
NonEmpty(t) == Length(t) > 0

\* json.loads(s) succeeds: the document is there, whole
Parses(t) == t.doc # "none" /\ t.body = t.full /\ t.body > 0

\* text=True on the captured bytes: universal newlines turn CR LF into LF
\* (the caller has checked t.ok: undecodable bytes raise UnicodeDecodeError)
Decode(t) == [t EXCEPT !.cr = FALSE]

\* ---- what a piece of code does when it runs ----
ExitCodes == {0, 1, 7}

StdoutSamples ==
  { Text(0, 0, t, 1, TRUE, "none") : t \in 0..MaxPad } \cup
  { Text(0, 2, 1, 1, TRUE, d) : d \in {"none", "value"} } \cup
  { Text(0, OUTPUT_CAP + 1, 1, 1, TRUE, "value") } \cup
  { Text(0, b, t, 1, TRUE, "none") : b \in {OUTPUT_CAP - 1, OUTPUT_CAP + 1}, t \in 0..MaxPad } \cup
  { Text(0, 20000, 1, 2, TRUE, "none"),
    Text(0, 40000, 1, 2, TRUE, "none"),
    Text(0, 2, 1, 1, FALSE, "none"),
    [Text(0, 2, 1, 1, TRUE, "none") EXCEPT !.cr = TRUE],
    [Text(OUTPUT_CAP, 0, 0, 1, TRUE, "none") EXCEPT !.sp = TRUE] }

StderrSamples ==
  { Text(p, b, p, 1, TRUE, "none") :
      p \in 0..MaxPad, b \in {0, 2, SNIPPET_CAP, SNIPPET_CAP + 1, OUTPUT_CAP + 1} } \cup
  { Text(0, 2, 1, 1, FALSE, "none") }

\* src is "" for the empty source and "user" for any other source text
Programs ==
  [src : {"user"}, dur : 0..MaxDur, out : StdoutSamples, err : StderrSamples,
   exit_code : ExitCodes]

NoCode == [src |-> "", dur |-> 0, out |-> Empty, err |-> Empty, exit_code |-> 0]

\* python_exec's introspection snippet: prints one JSON object and exits 0
IntrospectionSnippet ==
  [src |-> "user", dur |-> 1, out |-> Text(0, 400, 1, 1, TRUE, "value"),
   err |-> Empty, exit_code |-> 0]

\* ---- the shell wrapper (shell_exec.py, py_wrapper) ----
\* the length of json.dumps(s) without its quotes: a newline becomes \n, a
\* non-ASCII character \uXXXX (ensure_ascii), a space stays a space
EncLen(t) ==
  (IF t.sp THEN 1 ELSE 2) * (t.lead + t.trail) + (IF t.width = 1 THEN 1 ELSE 6) * t.body

Digits(n) == IF n < 10 THEN 1 ELSE IF n < 100 THEN 2 ELSE 3

\* print(json.dumps({"stdout": .., "stderr": .., "exit_code": ..})): the
\* leading spaces of stdout follow the 12 characters {"stdout": "
JsonDumpsTriple(o, e, c) ==
  LET n == 43 + EncLen(o) + EncLen(e) + Digits(c)
  IN [lead |-> 0, body |-> n, trail |-> 1, width |-> 1, ok |-> TRUE, cr |-> FALSE,
      sp |-> FALSE, gapAt |-> 12, gapLen |-> IF o.sp THEN o.lead ELSE 0,
      doc |-> "triple", full |-> n,
      val |-> [stdout |-> o, stderr |-> e, exit_code |-> c]]

\* the traceback python prints when the wrapper dies on UnicodeDecodeError
Traceback == Text(0, 300, 1, 1, TRUE, "none")

\* the wrapper as a program: it runs the script in a nested shell with
\* text=True and prints the triple; undecodable script output kills it
Wrapper(script) ==
  IF script.out.ok /\ script.err.ok
  THEN [src |-> "user", dur |-> script.dur,
        out |-> JsonDumpsTriple(Decode(script.out), Decode(script.err), script.exit_code),
        err |-> Empty, exit_code |-> 0]
  ELSE [src |-> "user", dur |-> script.dur, out |-> Empty, err |-> Traceback,
        exit_code |-> 1]

\* what the docker client and the interpreter may add to a stderr that the
\* code left empty (warnings)
StderrNoise == {Empty, Text(0, 60, 1, 1, TRUE, "none")}

WithNoise(p, n) == [p EXCEPT !.err = IF p.exit_code = 0 /\ ~NonEmpty(@) THEN n ELSE @]

\* shell_exec's timeout_s argument; 0 stands for None (both are falsy)
ShellTimeouts == {0, 1, TIMEOUT_MAX, TIMEOUT_MAX + 1}

\* ---- state ----
VARIABLES
  pc,         \* "idle", "sent", "running", "replied", "done": where the one call in flight is
  tool,       \* "none", "python", "shell": the tool that was called
  script,     \* shell_exec: what the caller's script does in the nested shell
  req,        \* the payload POSTed to /run: [code, timeout_s]
  cli,        \* the broker's child process (docker run): "none", "running", "exited", "killed", "failed"
  container,  \* the isolated process under the container runtime: "none", "running", "exited"
  elapsed,    \* seconds subprocess.run has waited for its child
  resp,       \* what the client's POST came back with
  result,     \* what the tool call gave its caller
  posts,      \* how many times the call in flight has run client.post
  launches,   \* how many times run has called subprocess.run for the request
  waited,     \* seconds the client has waited for the answer to its POST
  up,         \* the uploader (upload_synthea.py, main): its locals and what it has POSTed
  slots,      \* the broker serving several requests at once: one record per request
  served,     \* the answers the broker has given so far, by request
  np          \* the scratch-pad (notepad_store.py, _STORE) and the last call on it

vars ==
  <<pc, tool, script, req, cli, container, elapsed, resp, result, posts, launches, waited,
    up, slots, served, np>>

\* the state of the one tool call, and the rest
call == <<pc, tool, script, req, cli, container, elapsed, resp, result, posts, launches, waited>>
others == <<up, slots, served, np>>

NoReq == [code |-> NoCode, timeout_s |-> 0]

\* an HTTP outcome: kind is "none", "connect" (no answer: httpx.ConnectError),
\* "envelope" (a JSON object with the keys of RunResp), "object" (a JSON object
\* without them), "nonobject" (JSON, not an object) or "notjson"
Http(st, k, o, e, c) ==
  [status |-> st, kind |-> k, stdout |-> o, stderr |-> e, exit_code |-> c]

NoResp == Http(0, "none", Empty, Empty, 0)

\* RunResp(stdout=.., stderr=.., exit_code=..), sent with status 200
RunResp(o, e, c) == Http(200, "envelope", o, e, c)

\* raise HTTPException(status_code=.., detail=..): body {"detail": ..}
HttpException(st) == Http(st, "envelope", Empty, Empty, 0)

\* a tool call's outcome: kind "none", "return" or "raise"
Outcome(k, x, pre, ep, o, e, c, js, sn, hasSn, ell) ==
  [kind |-> k, exc |-> x, prefix |-> pre, endpoint |-> ep, stdout |-> o, stderr |-> e,
   exit_code |-> c, json |-> js, snippet |-> sn, hasSnippet |-> hasSn, ellipsis |-> ell]

NoResult == Outcome("none", "", "", FALSE, Empty, Empty, 0, "absent", Empty, FALSE, FALSE)

Return(o, e, c, js) ==
  Outcome("return", "", "", FALSE, o, e, c, js, Empty, FALSE, FALSE)

\* raise x(msg): prefix is how msg starts, endpoint whether msg holds EXEC_URL
Raise(x, pre, ep) ==
  Outcome("raise", x, pre, ep, Empty, Empty, 0, "absent", Empty, FALSE, FALSE)

\* ---- the uploader's files and the answers of the FHIR server ----

\* a .json file of the directory: a seed file or a patient bundle, the n-th
\* of its kind in sorted order
Seeds == {[seed |-> TRUE, n |-> i] : i \in 1..NumSeeds}
Bundles == {[seed |-> FALSE, n |-> i] : i \in 1..NumBundles}
AllJson == Seeds \cup Bundles

is_seed_file(f) == f.seed

\* seeds = sorted(...), as a list
SeedList == [i \in 1..NumSeeds |-> [seed |-> TRUE, n |-> i]]

\* rest = sorted([f for f in all_json if f not in seeds])
Rest == {f \in AllJson : ~is_seed_file(f)}

\* how a POST ends: "ok" is a 2xx status; the others are a non-2xx status
\* whose body mentions HAPI-1091, holds another text, or is empty
PostEnds == {"ok", "hapi1091", "other", "empty"}

\* what upload_file_worker returns beside the file name: None, or resp.text()
ErrorText(k) == IF k = "ok" THEN "None" ELSE k

\* if error_text:
Truthy(text) == text \notin {"None", "empty"}

\* HAPI_MATCH_ERR in text or "HAPI-1091" in text
looks_like_hapi_1091(text) == text = "hapi1091"

UploaderStart ==
  [phase |-> "plan", retry |-> 0, workers |-> 1,
   seedPos |-> 0, seedInFlight |-> FALSE, seed_failures |-> {},
   pending |-> {}, inflight |-> {}, failures |-> {}, other |-> {}, all_failures |-> {},
   attempt |-> 1,
   posted |-> [f \in AllJson |-> 0], uploaded |-> {},
   last |-> [f \in AllJson |-> "None"], repostAfter |-> {}]

\* ---- the scratch-pad (notepad_store.py, without REDIS_URL) ----
Keys == 1..NumKeys

\* the texts written: around the cap, one of two-byte characters that is
\* below the cap in characters and above it in bytes, and one that the cap
\* cuts between its two trailing newlines
NotepadTexts ==
  { Text(0, b, 0, 1, TRUE, "none") : b \in {0, 1, NOTEPAD_CAP, NOTEPAD_CAP + 1} } \cup
  { Text(0, NOTEPAD_CAP - 1, 0, 2, TRUE, "none"),
    Text(0, NOTEPAD_CAP - 1, 2, 1, TRUE, "none") }

\* a key of _STORE: there with its text, or not there
Absent == [has |-> FALSE, text |-> Empty]
Stored(t) == [has |-> TRUE, text |-> t]

\* np.store is _STORE; np.op, np.key and np.out are the last call, its key
\* and what it returned; np.prev is _STORE before that call and np.last the
\* text of the most recent notepad_write per key, Absent after a notepad_clear
NotepadStart ==
  [store |-> [k \in Keys |-> Absent], prev |-> [k \in Keys |-> Absent],
   last |-> [k \in Keys |-> Absent], op |-> "none", key |-> 1, out |-> Empty]

\* ---- a request slot of the broker ----
FreeSlot ==
  [phase |-> "free", code |-> NoCode, timeout_s |-> 0, elapsed |-> 0, resp |-> NoResp]

Init ==
  /\ pc = "idle"
  /\ tool = "none"
  /\ script = NoCode
  /\ req = NoReq
  /\ cli = "none"
  /\ container = "none"
  /\ elapsed = 0
  /\ resp = NoResp
  /\ result = NoResult
  /\ posts = 0
  /\ launches = 0
  /\ waited = 0
  /\ up = UploaderStart
  /\ slots = [i \in 1..MaxReq |-> FreeSlot]
  /\ served = {}
  /\ np = NotepadStart

\* ---- the tools' side of the POST (python_exec.py, shell_exec.py) ----

\* python_exec, up to client.post: an empty code is replaced by the snippet
PythonExecCall ==
  /\ pc = "idle"
  /\ \E code \in Programs \cup {NoCode} :
       req' = [code |-> IF code.src = "" THEN IntrospectionSnippet ELSE code,
               timeout_s |-> CPU_SEC]
  /\ tool' = "python"
  /\ pc' = "sent"
  /\ posts' = posts + 1
  /\ UNCHANGED <<script, cli, container, elapsed, resp, result, launches, waited, others>>

\* shell_exec, up to client.post, for a script of the set S: the wrapper is
\* the code, timeout_s or CPU_SEC the limit
ShellExecOf(S) ==
  /\ pc = "idle"
  /\ \E sc \in S, ts \in ShellTimeouts, n \in StderrNoise :
       /\ script' = sc
       /\ req' = [code |-> WithNoise(Wrapper(sc), n),
                  timeout_s |-> IF ts # 0 THEN ts ELSE CPU_SEC]
  /\ tool' = "shell"
  /\ pc' = "sent"
  /\ posts' = posts + 1
  /\ UNCHANGED <<cli, container, elapsed, resp, result, launches, waited, others>>

ShellExecCall == ShellExecOf(Programs)

\* the POST gets no answer (connection refused)
Unreachable ==
  /\ pc = "sent"
  /\ resp' = Http(0, "connect", Empty, Empty, 0)
  /\ pc' = "replied"
  /\ UNCHANGED <<tool, script, req, cli, container, elapsed, result, posts, launches, waited, others>>

\* what answers at EXEC_URL is not the broker: any status, a body that is no envelope
Misanswer(st, k) ==
  /\ pc = "sent"
  /\ resp' = Http(st, k, Empty, Empty, 0)
  /\ pc' = "replied"
  /\ UNCHANGED <<tool, script, req, cli, container, elapsed, result, posts, launches, waited, others>>

\* a client that waits no longer than the limit it asks for
ClientWaitNoMargin(r) == r.timeout_s

\* httpx.Client(timeout=CPU_SEC + 3), httpx.Client(timeout=(timeout_s or CPU_SEC) + 3):
\* how long the client waits for the answer
ClientWait(r) == r.timeout_s + CLIENT_MARGIN

\* ---- the broker (execd.py, run) ----

\* a broker that waits as long as the caller asks
DeadlineUncapped(r) == r.timeout_s

\* timeout=min(req.timeout_s, DEFAULT_TIMEOUT)
Deadline(r) == Min(r.timeout_s, DEFAULT_TIMEOUT)

\* RunReq: timeout_s is Field(ge=1, le=30)
ValidReq(r) == r.timeout_s >= TIMEOUT_MIN /\ r.timeout_s <= TIMEOUT_MAX

\* the stderr of the timeout response
TimeoutText == Text(0, 7, 0, 1, TRUE, "none")

\* out = (proc.stdout or "")[:OUTPUT_CAP]
Capped(t) == Take(t, OUTPUT_CAP)

\* what run answers when its child has exited: communicate() decodes both
\* streams (text=True), a UnicodeDecodeError is an Exception: status 500
Completed(code) ==
  IF code.out.ok /\ code.err.ok
  THEN RunResp(Capped(Decode(code.out)), Capped(Decode(code.err)), code.exit_code)
  ELSE HttpException(500)

\* what run answers on subprocess.TimeoutExpired
TimedOut == RunResp(Empty, TimeoutText, TIMEOUT_EXIT)

\* a broker that tries a failed launch once more
AfterLaunchFailureRetry(n) == IF n = 0 THEN "sent" ELSE "replied"

\* except FileNotFoundError / except Exception: raise HTTPException(500);
\* run answers after its n+1st call of subprocess.run, there is no loop
AfterLaunchFailure(n) == "replied"

\* request validation fails: FastAPI answers 422 and run is not called
BrokerRejects ==
  /\ pc = "sent"
  /\ ~ValidReq(req)
  /\ resp' = HttpException(422)
  /\ pc' = "replied"
  /\ UNCHANGED <<tool, script, req, cli, container, elapsed, result, posts, launches, waited, others>>

\* subprocess.run starts docker run, which starts the container
BrokerLaunches ==
  /\ pc = "sent"
  /\ ValidReq(req)
  /\ cli' = "running"
  /\ container' = "running"
  /\ elapsed' = 0
  /\ launches' = launches + 1
  /\ pc' = "running"
  /\ UNCHANGED <<tool, script, req, resp, result, posts, waited, others>>

\* subprocess.run raises before a child exists (FileNotFoundError, OSError)
BrokerLaunchFails ==
  /\ pc = "sent"
  /\ ValidReq(req)
  /\ cli' = "failed"
  /\ resp' = HttpException(500)
  /\ launches' = launches + 1
  /\ pc' = AfterLaunchFailure(launches)
  /\ UNCHANGED <<tool, script, req, container, elapsed, result, posts, waited, others>>

\* a second passes while subprocess.run waits, and the client with it
Tick ==
  /\ pc = "running"
  /\ elapsed < Deadline(req)
  /\ elapsed < req.code.dur
  /\ waited < ClientWait(req)
  /\ elapsed' = elapsed + 1
  /\ waited' = waited + 1
  /\ UNCHANGED <<pc, tool, script, req, cli, container, resp, result, posts, launches, others>>

\* the code finishes, the container and docker run exit, run answers
ProcessExits ==
  /\ pc = "running"
  /\ elapsed = req.code.dur
  /\ cli' = "exited"
  /\ container' = "exited"
  /\ resp' = Completed(req.code)
  /\ pc' = "replied"
  /\ UNCHANGED <<tool, script, req, elapsed, result, posts, launches, waited, others>>

\* the timeout of subprocess.run expires: it kills its child, docker run,
\* and raises TimeoutExpired; nothing in run stops the container
DeadlineExpires ==
  /\ pc = "running"
  /\ elapsed = Deadline(req)
  /\ req.code.dur >= Deadline(req)
  /\ cli' = "killed"
  /\ resp' = TimedOut
  /\ pc' = "replied"
  /\ UNCHANGED <<tool, script, req, container, elapsed, result, posts, launches, waited, others>>

\* a container left behind ends when its code does
ContainerFinishes ==
  /\ container = "running"
  /\ cli = "killed"
  /\ container' = "exited"
  /\ UNCHANGED <<pc, tool, script, req, cli, elapsed, resp, result, posts, launches, waited, others>>

\* ---- the tools' side of the answer ----

\* resp.raise_for_status() passes
Success(r) == r.kind # "connect" /\ r.status >= 200 /\ r.status < 300

\* the try block around the POST, the same in both tools: an httpx.HTTPError
\* (no connection, a status that raise_for_status refuses) is re-raised naming
\* EXEC_URL; resp.json() failing is re-raised by the second handler, which
\* does not name it; a body that is JSON passes, whatever it holds
PostFailure(r) ==
  IF ~Success(r) THEN Raise("ToolError", "sandbox HTTP error", TRUE)
  ELSE IF r.kind = "notjson" THEN Raise("ToolError", "sandbox invocation error", FALSE)
  ELSE NoResult

\* a snippet that is trimmed but never cut
SnippetNoCap(err) == Strip(err)

\* snippet = err.strip(); if len(snippet) > 800: snippet = snippet[:800] + "..."
Snippet(err) == Take(Strip(err), SNIPPET_CAP)

Elided(err) == Length(Strip(err)) > SNIPPET_CAP

\* the message of the non-zero exit: "sandbox failed (exit N)", then the
\* snippet if err.strip() is not empty
SandboxFailed(err, c) ==
  IF NonEmpty(Strip(err))
  THEN Outcome("raise", "ToolError", "sandbox failed", FALSE, Empty, Empty, c, "absent",
               Snippet(err), TRUE, Elided(err))
  ELSE Outcome("raise", "ToolError", "sandbox failed", FALSE, Empty, Empty, c, "absent",
               Empty, FALSE, FALSE)

\* the test that guards "No stdout captured"
NothingCaptured(out, err) == ~NonEmpty(Strip(out))

\* exit_code = int(data.get("exit_code", 1))
ExitCodeOr1(r) == IF r.kind = "object" THEN 1 ELSE r.exit_code

\* a python_exec that takes a cut document for a whole one
JsonFieldUncut(out) == IF out.doc # "none" THEN out.doc ELSE "absent"

\* parsed = json.loads(out) if out.strip() else None, None on any exception
JsonField(out) == IF Parses(out) THEN out.doc ELSE "absent"

\* python_exec from the answer on; data.get on a body that is no object
\* raises AttributeError outside the try block
PythonExecOutcome(r) ==
  IF PostFailure(r).kind = "raise" THEN PostFailure(r)
  ELSE IF r.kind = "nonobject" THEN Raise("AttributeError", "", FALSE)
  ELSE IF ExitCodeOr1(r) # 0 THEN SandboxFailed(r.stderr, ExitCodeOr1(r))
  ELSE IF NothingCaptured(r.stdout, r.stderr) THEN Raise("ToolError", "No stdout captured", FALSE)
  ELSE Return(r.stdout, r.stderr, r.exit_code, JsonField(r.stdout))

\* a shell_exec that passes the broker's exit code on
FallbackExitFromBroker(r) == r.exit_code

\* the exit code shell_exec gives when the outer stdout holds no triple
FallbackExit(r) == 0

\* a shell_exec that keeps the outer stdout as it came
OuterStdoutRaw(r) == r.stdout

\* out = (data.get("stdout") or "").strip()
OuterStdout(r) == Strip(r.stdout)

\* a shell_exec that never falls back to the outer stderr
InnerOnly(inner, outer) == inner

\* stderr=(inner.get("stderr", "") or err)
InnerOrOuter(inner, outer) == IF NonEmpty(inner) THEN inner ELSE outer

\* shell_exec from the answer on; data.get on a body that is no object
\* raises AttributeError outside the try block
ShellExecOutcome(r) ==
  IF PostFailure(r).kind = "raise" THEN PostFailure(r)
  ELSE IF r.kind = "nonobject" THEN Raise("AttributeError", "", FALSE)
  ELSE LET out == OuterStdout(r)
           err == r.stderr
       IN IF ~NonEmpty(out) THEN Return(Empty, err, FallbackExit(r), "absent")
          ELSE IF Parses(out) /\ out.doc = "triple"
          THEN Return(out.val.stdout, InnerOrOuter(out.val.stderr, err),
                      out.val.exit_code, "absent")
          ELSE Return(out, err, FallbackExit(r), "absent")

PythonExecFinish ==
  /\ pc = "replied"
  /\ tool = "python"
  /\ result' = PythonExecOutcome(resp)
  /\ pc' = "done"
  /\ UNCHANGED <<tool, script, req, cli, container, elapsed, resp, posts, launches, waited, others>>

ShellExecFinish ==
  /\ pc = "replied"
  /\ tool = "shell"
  /\ result' = ShellExecOutcome(resp)
  /\ pc' = "done"
  /\ UNCHANGED <<tool, script, req, cli, container, elapsed, resp, posts, launches, waited, others>>

\* the caller is done with the outcome; nothing of the call is kept
Forget ==
  /\ pc = "done"
  /\ cli # "running"
  /\ container # "running"
  /\ pc' = "idle"
  /\ tool' = "none"
  /\ script' = NoCode
  /\ req' = NoReq
  /\ cli' = "none"
  /\ container' = "none"
  /\ elapsed' = 0
  /\ resp' = NoResp
  /\ result' = NoResult
  /\ posts' = 0
  /\ launches' = 0
  /\ waited' = 0
  /\ UNCHANGED others

Next ==
  \/ PythonExecCall
  \/ ShellExecCall
  \/ Unreachable
  \/ \E st \in {200, 502}, k \in {"notjson", "nonobject", "object"} : Misanswer(st, k)
  \/ BrokerRejects
  \/ BrokerLaunches
  \/ BrokerLaunchFails
  \/ Tick
  \/ ProcessExits
  \/ DeadlineExpires
  \/ ContainerFinishes
  \/ PythonExecFinish
  \/ ShellExecFinish
  \/ Forget

Spec == Init /\ [][Next]_vars

\* ---- the same calls with a broker that is slow to take the request up ----

\* scripts that wait and print one line
SleepScripts ==
  [src : {"user"}, dur : 0..MaxDur, out : {Text(0, 2, 1, 1, TRUE, "none")}, err : {Empty},
   exit_code : {0}]

ShellExecSleep == ShellExecOf(SleepScripts)

\* a second passes before run gets to subprocess.run: the request waits for
\* a worker thread of the broker, or on its way there
Delay ==
  /\ pc = "sent"
  /\ waited < MaxDelay
  /\ waited < ClientWait(req)
  /\ waited' = waited + 1
  /\ UNCHANGED <<pc, tool, script, req, cli, container, elapsed, resp, result, posts, launches, others>>

\* the client's wait is over and no answer has come: httpx.ReadTimeout, an
\* httpx.HTTPError; the broker goes on with the request
ClientTimeout ==
  /\ pc \in {"sent", "running"}
  /\ waited = ClientWait(req)
  /\ resp' = Http(0, "timeout", Empty, Empty, 0)
  /\ pc' = "replied"
  /\ UNCHANGED <<tool, script, req, cli, container, elapsed, result, posts, launches, waited, others>>

\* the client has given up; the child exits or subprocess.run kills it at
\* its deadline, and the answer of run goes nowhere
BrokerEndsUnheard ==
  /\ pc \in {"replied", "done"}
  /\ cli = "running"
  /\ \/ /\ req.code.dur <= Deadline(req)
        /\ cli' = "exited"
        /\ container' = "exited"
     \/ /\ req.code.dur >= Deadline(req)
        /\ cli' = "killed"
        /\ container' = container
  /\ UNCHANGED <<pc, tool, script, req, elapsed, resp, result, posts, launches, waited, others>>

NextTimed ==
  \/ PythonExecCall
  \/ ShellExecSleep
  \/ Delay
  \/ ClientTimeout
  \/ BrokerEndsUnheard
  \/ BrokerRejects
  \/ BrokerLaunches
  \/ Tick
  \/ ProcessExits
  \/ DeadlineExpires
  \/ ContainerFinishes
  \/ PythonExecFinish
  \/ ShellExecFinish
  \/ Forget

SpecTimed == Init /\ [][NextTimed]_vars

\* ---- the uploader (upload_synthea.py) ----
\* up.phase is "plan", "seeds", "main", "loop", "retry" or "done"; up.posted,
\* up.uploaded, up.last and up.repostAfter record what was POSTed and how
\* the server answered

\* main: --retry and --workers are read, plan_files lists the directory
ParseArgs ==
  /\ up.phase = "plan"
  /\ \E r \in 0..MaxRetry, w \in 1..MaxWorkers :
       up' = [up EXCEPT !.phase = "seeds", !.retry = r, !.workers = w]
  /\ UNCHANGED <<np, call, slots, served>>

\* phase_upload_seeds: the next seed file of the list is POSTed
SeedPost ==
  /\ up.phase = "seeds"
  /\ ~up.seedInFlight
  /\ up.seedPos < NumSeeds
  /\ up' = [up EXCEPT !.seedInFlight = TRUE,
                      !.posted[SeedList[up.seedPos + 1]] = @ + 1]
  /\ UNCHANGED <<np, call, slots, served>>

\* phase_upload_seeds: the POST ends; a status outside 2xx is a failure
SeedDone(k) ==
  /\ up.phase = "seeds"
  /\ up.seedInFlight
  /\ LET name == SeedList[up.seedPos + 1]
     IN up' = [up EXCEPT !.seedInFlight = FALSE,
                         !.seedPos = @ + 1,
                         !.seed_failures = IF k = "ok" THEN @ ELSE @ \cup {name},
                         !.uploaded = IF k = "ok" THEN @ \cup {name} ELSE @,
                         !.last[name] = ErrorText(k)]
  /\ UNCHANGED <<np, call, slots, served>>

\* an uploader that starts the bundles without awaiting the seed phase
SeedsNotAwaited(u) == TRUE

\* seed_failures = await phase_upload_seeds(...): the loop over the seeds is over
SeedsAwaited(u) == u.seedPos = NumSeeds /\ ~u.seedInFlight

\* phase_upload_parallel(rest, label="main"): one task per file
MainPass ==
  /\ up.phase = "seeds"
  /\ SeedsAwaited(up)
  /\ up' = [up EXCEPT !.phase = "main", !.pending = Rest, !.failures = {}]
  /\ UNCHANGED <<np, call, slots, served>>

\* upload_file_worker: the semaphore is acquired and the file POSTed
WorkerPost(f) ==
  /\ up.phase \in {"main", "retry"}
  /\ f \in up.pending
  /\ Cardinality(up.inflight) < up.workers
  /\ up' = [up EXCEPT !.pending = @ \ {f},
                      !.inflight = @ \cup {f},
                      !.posted[f] = @ + 1,
                      !.repostAfter = IF up.posted[f] > 0
                                      THEN @ \cup {<<f, up.last[f]>>} ELSE @]
  /\ UNCHANGED <<np, call, slots, served>>

\* upload_file_worker returns (filename, error_text) and phase_upload_parallel
\* files it under failures if error_text is truthy
WorkerDone(f, k) ==
  /\ f \in up.inflight
  /\ up' = [up EXCEPT !.inflight = @ \ {f},
                      !.failures = IF Truthy(ErrorText(k))
                                   THEN @ \cup {<<f, ErrorText(k)>>} ELSE @,
                      !.uploaded = IF k = "ok" THEN @ \cup {f} ELSE @,
                      !.last[f] = ErrorText(k)]
  /\ UNCHANGED <<np, call, slots, served>>

\* phase_upload_parallel returns its failures: all_failures = (other +) failures
PassEnds ==
  /\ up.phase \in {"main", "retry"}
  /\ up.pending = {}
  /\ up.inflight = {}
  /\ up' = [up EXCEPT !.phase = "loop",
                      !.all_failures = up.other \cup up.failures,
                      !.other = {},
                      !.failures = {},
                      !.attempt = IF up.phase = "retry" THEN @ + 1 ELSE @]
  /\ UNCHANGED <<np, call, slots, served>>

\* to_retry = [t for t in all_failures if looks_like_hapi_1091(t[1])]
ToRetry(u) == {t \in u.all_failures : looks_like_hapi_1091(t[2])}

\* the retry loop goes round: attempt is in range(1, retry + 1), there are
\* failures and some of them look like HAPI-1091
LoopGoesOn(u) == u.attempt <= u.retry /\ u.all_failures # {} /\ ToRetry(u) # {}

\* a retry pass: phase_upload_parallel(files, label="retry N")
RetryPass ==
  /\ up.phase = "loop"
  /\ LoopGoesOn(up)
  /\ up' = [up EXCEPT !.phase = "retry",
                      !.pending = {t[1] : t \in ToRetry(up)},
                      !.other = up.all_failures \ ToRetry(up),
                      !.failures = {}]
  /\ UNCHANGED <<np, call, slots, served>>

\* the loop is left (range exhausted, or break)
LoopEnds ==
  /\ up.phase = "loop"
  /\ ~LoopGoesOn(up)
  /\ up' = [up EXCEPT !.phase = "done"]
  /\ UNCHANGED <<np, call, slots, served>>

\* final_failure_files = sorted([f[0] for f in all_failures])
final_failure_files == {t[1] : t \in up.all_failures}

NextUploader ==
  \/ ParseArgs
  \/ SeedPost
  \/ \E k \in PostEnds : SeedDone(k)
  \/ MainPass
  \/ \E f \in Rest : WorkerPost(f)
  \/ \E f \in Rest, k \in PostEnds : WorkerDone(f, k)
  \/ PassEnds
  \/ RetryPass
  \/ LoopEnds

SpecUploader == Init /\ [][NextUploader]_vars

\* ---- the broker serving several requests at once (execd.py, run) ----
\* run is a plain function that FastAPI calls in a worker thread per request;
\* slots[i] is the i-th of these threads, served one remembered answer

\* the codes sent in: a quick one, a failing one, one that runs as long as
\* the ceiling, one that runs past it, one that prints more than the cap
BrokerPrograms ==
  { [src |-> "user", dur |-> 0, out |-> Text(0, 2, 1, 1, TRUE, "none"), err |-> Empty,
     exit_code |-> 0],
    [src |-> "user", dur |-> 1, out |-> Text(0, 2, 1, 1, TRUE, "none"), err |-> Empty,
     exit_code |-> 7],
    [src |-> "user", dur |-> DEFAULT_TIMEOUT, out |-> Text(0, 2, 1, 1, TRUE, "none"),
     err |-> Empty, exit_code |-> 0],
    [src |-> "user", dur |-> MaxDur, out |-> Text(0, 2, 1, 1, TRUE, "none"), err |-> Empty,
     exit_code |-> 0],
    [src |-> "user", dur |-> 0, out |-> Text(0, OUTPUT_CAP + 1, 1, 1, TRUE, "none"),
     err |-> Empty, exit_code |-> 0] }

BrokerTimeouts == {TIMEOUT_MIN, TIMEOUT_MAX}

\* what is remembered of an answer: the request, the thread, stdout and exit_code
Answer(i, sl, r) ==
  [slot |-> i, code |-> sl.code, timeout_s |-> sl.timeout_s, stdout |-> r.stdout,
   exit_code |-> r.exit_code]

\* a request comes in and subprocess.run starts its child
SlotAccepts(i) ==
  /\ slots[i].phase = "free"
  /\ \E code \in BrokerPrograms, ts \in BrokerTimeouts :
       slots' = [slots EXCEPT ![i] = [phase |-> "running", code |-> code, timeout_s |-> ts,
                                      elapsed |-> 0, resp |-> NoResp]]
  /\ UNCHANGED <<np, call, up, served>>

\* a second passes for the i-th request
SlotTick(i) ==
  /\ slots[i].phase = "running"
  /\ slots[i].elapsed < Deadline(slots[i])
  /\ slots[i].elapsed < slots[i].code.dur
  /\ slots' = [slots EXCEPT ![i].elapsed = @ + 1]
  /\ UNCHANGED <<np, call, up, served>>

\* a broker that answers from what it answered before
SlotAnswerCached(sl) ==
  IF served = {} THEN Completed(sl.code)
  ELSE LET a == CHOOSE x \in served : TRUE IN RunResp(a.stdout, Empty, a.exit_code)

\* return RunResp(stdout=out, stderr=err, exit_code=proc.returncode): made of
\* the locals of this call of run
SlotAnswer(sl) == Completed(sl.code)

\* the child of the i-th request exits and run answers
SlotExits(i) ==
  /\ slots[i].phase = "running"
  /\ slots[i].elapsed = slots[i].code.dur
  /\ LET r == SlotAnswer(slots[i])
     IN /\ slots' = [slots EXCEPT ![i].phase = "answered", ![i].resp = r]
        /\ served' \in {served, {Answer(i, slots[i], r)}}
  /\ UNCHANGED <<np, call, up>>

\* the deadline of the i-th request expires and run answers TIMEOUT
SlotExpires(i) ==
  /\ slots[i].phase = "running"
  /\ slots[i].elapsed = Deadline(slots[i])
  /\ slots[i].code.dur >= Deadline(slots[i])
  /\ slots' = [slots EXCEPT ![i].phase = "answered", ![i].resp = TimedOut]
  /\ served' \in {served, {Answer(i, slots[i], TimedOut)}}
  /\ UNCHANGED <<np, call, up>>

\* the answer is sent and the thread is free again
SlotReleased(i) ==
  /\ slots[i].phase = "answered"
  /\ slots' = [slots EXCEPT ![i] = FreeSlot]
  /\ UNCHANGED <<np, call, up, served>>

NextBroker ==
  \E i \in 1..MaxReq :
    \/ SlotAccepts(i)
    \/ SlotTick(i)
    \/ SlotExits(i)
    \/ SlotExpires(i)
    \/ SlotReleased(i)

SpecBroker == Init /\ [][NextBroker]_vars

\* ---- the scratch-pad tools (notepad.py, notepad_store.py) ----

\* a store that keeps the whole value
StoreUncapped(value) == value

\* _STORE[key] = value[:1024]
StoreCapped(value) == Take(value, NOTEPAD_CAP)

\* notepad_write(key, text): write(key, text); return "ok"
notepad_write(key, text) ==
  /\ np' = [np EXCEPT !.store[key] = Stored(StoreCapped(text)),
                      !.prev = np.store,
                      !.last[key] = Stored(text),
                      !.op = "write", !.key = key, !.out = Empty]
  /\ UNCHANGED <<call, up, slots, served>>

\* val = read(key), which is _STORE.get(key); return val or ""
ValOrEmpty(e) == IF e.has /\ NonEmpty(e.text) THEN e.text ELSE Empty

notepad_read(key) ==
  /\ np' = [np EXCEPT !.prev = np.store,
                      !.op = "read", !.key = key, !.out = ValOrEmpty(np.store[key])]
  /\ UNCHANGED <<call, up, slots, served>>

\* notepad_clear(key): clear(key), which is _STORE.pop(key, None); return "cleared"
notepad_clear(key) ==
  /\ np' = [np EXCEPT !.store[key] = Absent,
                      !.prev = np.store,
                      !.last[key] = Absent,
                      !.op = "clear", !.key = key, !.out = Empty]
  /\ UNCHANGED <<call, up, slots, served>>

NextNotepad ==
  \E key \in Keys :
    \/ \E text \in NotepadTexts : notepad_write(key, text)
    \/ notepad_read(key)
    \/ notepad_clear(key)

SpecNotepad == Init /\ [][NextNotepad]_vars

\* ---- the claims ----

\* run has answered the call in flight after starting (or failing to start) a child
Answered == pc \in {"replied", "done"} /\ cli \in {"failed", "exited", "killed"}

\* the answer is a RunResp of the broker
BrokerResult == Answered /\ Success(resp) /\ resp.kind = "envelope"

\* C1: the broker never waits longer than min(timeout_s, ceiling) for its
\* child; a run whose code needs longer than that is answered with exactly
\* exit_code 124, stderr "TIMEOUT" and an empty stdout, whatever the code had
\* printed, also when timeout_s is above the ceiling.
C1_TimeoutAtDeadline ==
  LET limit == Min(req.timeout_s, DEFAULT_TIMEOUT)
  IN /\ cli \in {"running", "exited", "killed"} => elapsed <= limit
     /\ (Answered /\ (cli = "killed" \/ (cli = "exited" /\ req.code.dur > limit)))
          => /\ elapsed = limit
             /\ resp.status = 200
             /\ resp.kind = "envelope"
             /\ resp.exit_code = 124
             /\ Length(resp.stderr) = 7
             /\ resp.stdout = Empty

\* C1 witness: a caller asked for more than the ceiling, the code had output
\* to give and the run was cut at the ceiling
C1_Witness ==
  /\ pc = "replied"
  /\ cli = "killed"
  /\ req.timeout_s > DEFAULT_TIMEOUT
  /\ elapsed = DEFAULT_TIMEOUT
  /\ NonEmpty(req.code.out)

\* C2: for a valid request the broker answers non-2xx only when the launch
\* failed, and a child that exited within the deadline is answered 2xx with
\* its own exit code.
C2_NonSuccessOnlyOnLaunchFailure ==
  Answered =>
    /\ ~Success(resp) => cli = "failed"
    /\ cli = "exited" => /\ Success(resp)
                         /\ resp.kind = "envelope"
                         /\ resp.exit_code = req.code.exit_code

\* a broker result with a non-zero exit code has reached python_exec
PythonFailed == tool = "python" /\ pc = "done" /\ BrokerResult /\ resp.exit_code # 0

\* C3 as claimed: on a non-zero exit code python_exec raises the sandbox
\* failure with the exit code and, when stderr is non-empty, an excerpt of at
\* most 800 characters, with the elision marker only if stderr was longer.
C3_ExcerptWhenStderrNonEmpty ==
  PythonFailed =>
    /\ result.kind = "raise"
    /\ result.exc = "ToolError"
    /\ result.prefix = "sandbox failed"
    /\ result.exit_code = resp.exit_code
    /\ NonEmpty(resp.stderr) => result.hasSnippet /\ Length(result.snippet) <= 800
    /\ result.ellipsis => Length(resp.stderr) > 800

\* C3 as amended: on a non-zero exit code python_exec raises the sandbox
\* failure with the exit code; the message carries an excerpt exactly when
\* stderr is not blank, the excerpt is the first 800 characters of the
\* trimmed stderr, and the marker follows exactly when the trimmed stderr is
\* longer than 800 characters.
C3_ExcerptWhenStderrNotBlank ==
  PythonFailed =>
    /\ result.kind = "raise"
    /\ result.exc = "ToolError"
    /\ result.prefix = "sandbox failed"
    /\ result.exit_code = resp.exit_code
    /\ result.hasSnippet <=> Length([resp.stderr EXCEPT !.lead = 0, !.trail = 0]) > 0
    /\ result.hasSnippet =>
         /\ result.snippet = Take([resp.stderr EXCEPT !.lead = 0, !.trail = 0], 800)
         /\ Length(result.snippet) <= 800
    /\ result.ellipsis <=> resp.stderr.body > 800

\* C3 witness: a failure whose trimmed stderr was longer than 800 characters
C3_Witness ==
  /\ PythonFailed
  /\ result.kind = "raise"
  /\ result.ellipsis
  /\ Length(result.snippet) = 800
  /\ resp.stderr.lead > 0

\* C4: on exit code 0 python_exec raises the empty-result error exactly when
\* stdout and stderr are both empty.
C4_EmptyResultIffBothEmpty ==
  (tool = "python" /\ pc = "done" /\ BrokerResult /\ resp.exit_code = 0) =>
    ((result.kind = "raise" /\ result.prefix = "No stdout captured")
       <=> (~NonEmpty(resp.stdout) /\ ~NonEmpty(resp.stderr)))

\* C5: a script whose nested shell finished within the deadline with exit
\* code n makes shell_exec return, with exit_code n, whatever it printed.
C5_ShellExitCodeKept ==
  (tool = "shell" /\ pc = "done" /\ cli = "exited") =>
    result.kind = "return" /\ result.exit_code = script.exit_code

\* C6: when the broker reports a timeout or a wrapper that exited non-zero,
\* shell_exec returns a result whose exit_code is non-zero.
C6_ShellFaultInExitCode ==
  (tool = "shell" /\ pc = "done" /\ BrokerResult /\ resp.exit_code # 0) =>
    result.kind = "return" /\ result.exit_code # 0

\* C7: no connection, a non-success status and a success body that is no
\* envelope each raise a transport error whose message names the endpoint.
C7_TransportErrorNamesEndpoint ==
  (pc = "done" /\ (~Success(resp) \/ resp.kind \in {"notjson", "nonobject"})) =>
    result.kind = "raise" /\ result.exc = "ToolError" /\ result.endpoint

\* C8: whatever the broker does, shell_exec returns a result or raises the
\* transport error, and nothing else.
C8_ShellRaisesTransportOnly ==
  (tool = "shell" /\ pc = "done") =>
    \/ result.kind = "return"
    \/ /\ result.kind = "raise"
       /\ result.exc = "ToolError"
       /\ result.prefix \in {"sandbox HTTP error", "sandbox invocation error"}

\* C9: once the broker has given the timeout result, nothing it started for
\* that request is still running.
C9_NothingRunsAfterTimeout ==
  (Answered /\ cli = "killed") => container # "running"

\* C10: when the child exits within the deadline, each of the returned
\* stdout and stderr is the captured text if that takes at most 32768 bytes,
\* and is cut to exactly 32768 bytes if it takes more.
C10_CappedAtBytes ==
  (BrokerResult /\ cli = "exited") =>
    LET out == [req.code.out EXCEPT !.cr = FALSE]
        err == [req.code.err EXCEPT !.cr = FALSE]
    IN /\ ByteLen(out) <= 32768 => resp.stdout = out
       /\ ByteLen(out) > 32768 => ByteLen(resp.stdout) = 32768
       /\ ByteLen(err) <= 32768 => resp.stderr = err
       /\ ByteLen(err) > 32768 => ByteLen(resp.stderr) = 32768

\* the broker's answer to the shell tool is a JSON object that went through
\* raise_for_status
ShellAnswered == tool = "shell" /\ pc = "done" /\ Success(resp) /\ resp.kind = "envelope"

\* the outer stdout holds the wrapper's triple, whole
HoldsTriple(t) == t.doc = "triple" /\ t.body = t.full /\ t.body > 0

\* C12: a shell_exec call whose broker response has an empty stdout returns
\* stdout "", the outer stderr and exit_code 0 and raises nothing; a
\* python_exec call whose broker response has exit_code 0 and no output at
\* all raises the empty-result error.
C12_EmptyStdoutAsymmetry ==
  /\ (ShellAnswered /\ Length(resp.stdout) = 0) =>
       /\ result.kind = "return"
       /\ result.stdout = Empty
       /\ result.stderr = resp.stderr
       /\ result.exit_code = 0
  /\ (tool = "python" /\ pc = "done" /\ Success(resp) /\ resp.kind = "envelope"
        /\ resp.exit_code = 0 /\ Length(resp.stdout) = 0 /\ Length(resp.stderr) = 0) =>
       /\ result.kind = "raise"
       /\ result.exc = "ToolError"
       /\ result.prefix = "No stdout captured"

\* C12 witness: the shell tool got the broker's timeout response (empty
\* stdout, stderr TIMEOUT, exit_code 124) and returned the empty success
C12_Witness ==
  /\ ShellAnswered
  /\ Length(resp.stdout) = 0
  /\ resp.exit_code = TIMEOUT_EXIT
  /\ Length(resp.stderr) = 7
  /\ result.kind = "return"
  /\ result.exit_code = 0

\* C13: when the outer stdout parses as the triple, the result's stdout and
\* exit_code are the inner ones, and its stderr is the inner stderr if that
\* is non-empty and the outer stderr otherwise.
C13_InnerTripleReturned ==
  (ShellAnswered /\ HoldsTriple(resp.stdout)) =>
    /\ result.kind = "return"
    /\ result.stdout = resp.stdout.val.stdout
    /\ result.exit_code = resp.stdout.val.exit_code
    /\ result.stderr = IF Length(resp.stdout.val.stderr) > 0
                       THEN resp.stdout.val.stderr ELSE resp.stderr

\* C13 witness: the script failed silently (exit 7, no stderr) while the
\* outer stderr held a warning, which became the result's stderr
C13_Witness ==
  /\ ShellAnswered
  /\ HoldsTriple(resp.stdout)
  /\ resp.stdout.val.exit_code = 7
  /\ Length(resp.stdout.val.stderr) = 0
  /\ Length(resp.stderr) > 0
  /\ result.stderr = resp.stderr

\* C14 as stated: when the outer stdout is non-empty and is not the triple,
\* shell_exec returns the outer stdout as it came, the outer stderr and
\* exit_code 0.
C14_RawOuterStdoutReturned ==
  (ShellAnswered /\ Length(resp.stdout) > 0 /\ ~HoldsTriple(resp.stdout)) =>
    /\ result.kind = "return"
    /\ result.stdout = resp.stdout
    /\ result.stderr = resp.stderr
    /\ result.exit_code = 0

\* C14 amended: when the outer stdout is non-empty and is not the triple,
\* shell_exec raises nothing and returns the outer stdout without its
\* leading and trailing whitespace, the outer stderr and exit_code 0.
C14_TrimmedOuterStdoutReturned ==
  (ShellAnswered /\ Length(resp.stdout) > 0 /\ ~HoldsTriple(resp.stdout)) =>
    /\ result.kind = "return"
    /\ result.stdout = [resp.stdout EXCEPT !.lead = 0, !.trail = 0]
    /\ result.stderr = resp.stderr
    /\ result.exit_code = 0

\* C14 witness: the script printed OUTPUT_CAP spaces, the cap cut the
\* wrapper's document inside them, and the 12 characters before the spaces
\* are what shell_exec returned
C14_Witness ==
  /\ ShellAnswered
  /\ Length(resp.stdout) = OUTPUT_CAP
  /\ ~HoldsTriple(resp.stdout)
  /\ result.kind = "return"
  /\ Length(result.stdout) = 12
  /\ result.stdout # resp.stdout

\* the text is a JSON document, whole
HoldsValue(t) == t.doc # "none" /\ t.body = t.full /\ t.body > 0

\* the broker's answer to the direct tool reports exit_code 0
PythonZeroExit ==
  /\ tool = "python" /\ pc = "done" /\ Success(resp) /\ resp.kind = "envelope"
  /\ resp.exit_code = 0

\* C15 as stated: for a response with exit_code 0 and a non-empty stdout,
\* python_exec returns stdout and stderr as reported and exit_code 0, with
\* the structured field present exactly when stdout parses.
C15_NonEmptyStdoutReturned ==
  (PythonZeroExit /\ Length(resp.stdout) > 0) =>
    /\ result.kind = "return"
    /\ result.stdout = resp.stdout
    /\ result.stderr = resp.stderr
    /\ result.exit_code = 0
    /\ result.json = IF HoldsValue(resp.stdout) THEN resp.stdout.doc ELSE "absent"

\* C15 amended: for a response with exit_code 0 and a stdout that is not
\* blank (not empty and not whitespace only), python_exec returns stdout and
\* stderr as reported and exit_code 0, with the structured field present
\* exactly when stdout parses; a parse failure never raises.
C15_NonBlankStdoutReturned ==
  (PythonZeroExit /\ resp.stdout.body > 0) =>
    /\ result.kind = "return"
    /\ result.stdout = resp.stdout
    /\ result.stderr = resp.stderr
    /\ result.exit_code = 0
    /\ result.json = IF HoldsValue(resp.stdout) THEN resp.stdout.doc ELSE "absent"

\* C15 witness: the code printed a JSON document longer than the cap; the
\* cut text does not parse and is returned without the structured field
C15_Witness ==
  /\ PythonZeroExit
  /\ resp.stdout.doc = "value"
  /\ resp.stdout.body < resp.stdout.full
  /\ result.kind = "return"
  /\ result.stdout = resp.stdout
  /\ result.json = "absent"

\* python_exec's code was started and needs longer than the broker's deadline
PythonPastDeadline ==
  /\ tool = "python" /\ pc = "done" /\ launches = 1 /\ cli # "failed"
  /\ req.code.dur > Deadline(req)

\* the call raised the non-zero-exit error for exit code 124
RaisedTimeout ==
  /\ result.kind = "raise"
  /\ result.prefix = "sandbox failed"
  /\ result.exit_code = TIMEOUT_EXIT

\* C11 as stated: whenever python_exec's code runs past its deadline, the
\* call raises the non-zero-exit error with exit code 124, never the
\* transport error, because the client's wait outlasts the broker's deadline.
C11_TimeoutAlwaysClassified == PythonPastDeadline => RaisedTimeout

\* C11 amended: the client's wait exceeds the broker's deadline by at least
\* the margin, so when python_exec's code runs past its deadline and the
\* request spent less than the margin outside subprocess.run, the call
\* raises the non-zero-exit error with exit code 124; the transport error is
\* raised only after a wait of timeout_s + margin with at least the margin
\* spent outside subprocess.run.
C11_TimeoutClassifiedWithinMargin ==
  /\ pc # "idle" => ClientWait(req) >= Deadline(req) + CLIENT_MARGIN
  /\ (PythonPastDeadline /\ waited - elapsed < CLIENT_MARGIN) => RaisedTimeout
  /\ (PythonPastDeadline /\ ~RaisedTimeout) =>
       /\ result.kind = "raise"
       /\ result.prefix = "sandbox HTTP error"
       /\ waited = ClientWait(req)
       /\ waited - elapsed >= CLIENT_MARGIN

\* C11 witness: the request waited two seconds for the broker, the code ran
\* into the deadline and the caller got the error for exit code 124
C11_Witness ==
  /\ PythonPastDeadline
  /\ waited - elapsed = 2
  /\ cli = "killed"
  /\ RaisedTimeout

\* C16: a call runs client.post at most once and run calls subprocess.run at
\* most once for a request, whatever the outcome.
C16_NoRetries ==
  /\ posts <= 1
  /\ launches <= posts
  /\ pc = "idle" => posts = 0

\* C16 witness: the launch failed, the broker answered 500 after its one
\* attempt and the call raised after its one POST
C16_Witness ==
  /\ pc = "done"
  /\ cli = "failed"
  /\ posts = 1
  /\ launches = 1
  /\ result.kind = "raise"

\* C17: a call is over no later than min(requested timeout, ceiling) plus
\* the margin after it was issued.
C17_DoneWithinCeilingPlusMargin ==
  pc = "done" => waited <= Min(req.timeout_s, DEFAULT_TIMEOUT) + CLIENT_MARGIN

\* C19: no bundle is POSTed before the POST of every seed file has ended,
\* well or not; a seed file is POSTed once, failed or not; and the run ends
\* with every bundle POSTed, whatever the seeds did.
C19_SeedsBeforeBundles ==
  /\ \A f \in Rest : up.posted[f] > 0 =>
       /\ ~up.seedInFlight
       /\ \A sf \in Seeds : up.posted[sf] = 1
  /\ \A sf \in Seeds : up.posted[sf] <= 1
  /\ up.phase = "done" => \A f \in Rest : up.posted[f] >= 1

\* C19 witness: both seed files failed and the run went on to POST every
\* bundle
C19_Witness ==
  /\ up.phase = "done"
  /\ up.seed_failures = Seeds
  /\ \A f \in Rest : up.posted[f] >= 1

\* C20, the retries: a bundle is POSTed again only after a failure text that
\* looks like HAPI-1091, and at most retry more times
C20_RetryOnlyHapi1091 ==
  /\ \A t \in up.repostAfter : looks_like_hapi_1091(t[2])
  /\ \A f \in Rest : up.posted[f] <= 1 + up.retry

\* C20: a bundle is POSTed again only after a failure text that looks like
\* HAPI-1091, at most retry more times, and when the run is over every bundle
\* is either one that the server accepted or one of the final failures.
C20_UploadedOrFinalFailure ==
  /\ C20_RetryOnlyHapi1091
  /\ up.phase = "done" =>
       \A f \in Rest : (f \in up.uploaded) # (f \in final_failure_files)

\* the code ends before the broker's deadline or runs past it: what it
\* gives does not hang on which of the two comes first
Deterministic(sl) == sl.code.dur # Deadline(sl)

\* two answers to the same code with the same limit
SameRequest(a, sl) == a.code = sl.code /\ a.timeout_s = sl.timeout_s

First1024(t) ==
  LET l == IF t.lead <= 1024 THEN t.lead ELSE 1024
      b == IF t.body <= 1024 - l THEN t.body ELSE 1024 - l
      r == IF t.trail <= 1024 - l - b THEN t.trail ELSE 1024 - l - b
  IN [t EXCEPT !.lead = l, !.body = b, !.trail = r]

====
